---- MODULE Spec2Model ----
(***************************************************************************)
(* Community Sentiment voting subsystem: the Polls and Votes tables, the   *)
(* /polls, /vote, /polls (create) and /generate-daily request handlers,    *)
(* and the scheduler that calls them at startup and once a day.            *)
(* Every await of a handler is one step, the code that runs before a       *)
(* handler's first await being part of that first step; the database is    *)
(* PostgreSQL at its                                                       *)
(* default READ COMMITTED isolation: statements outside a transaction      *)
(* commit on their own, statements inside one are visible to other         *)
(* connections at COMMIT only, a row UPDATE holds the row's lock until the *)
(* transaction ends, and an INSERT that meets another transaction's        *)
(* uncommitted row with the same unique key waits for that transaction.    *)
(***************************************************************************)
EXTENDS Integers, Sequences, FiniteSets, TLC

\* ------------------------------------------------------------------ bounds
NumVoteReqs == 2      \* vote submissions over a run
NumGenRuns == 1       \* generate-daily requests over a run
MaxPolls == 4         \* rows the Polls table may come to hold
MaxDaily == 1         \* firings of the daily cron trigger over a run
MaxFaults == 1        \* storage statements that fail over a run

\* ------------------------------------------------------- program constants
ListLimit == 3        \* LIMIT 3 of the listing query
MinTrending == 6      \* trendingPlayers.rows.length < 6
BatchSize == 3        \* pollsToCreate.length >= 3
MaxQuestionLen == 500 \* question.length > 500

VARIABLES
    polls,        \* Polls table, committed rows: poll_id -> row
    poll_id_seq,  \* last value of the SERIAL sequence behind Polls.poll_id
    clock,        \* CURRENT_TIMESTAMP of the last insert into Polls
    votes,        \* Votes table, committed rows
    vreq,         \* the /vote handlers: vreq[r] is handler r's locals
    gen,          \* the /generate-daily handlers
    last,         \* response of the last /polls list or create request,
                  \* forgotten as soon as a later statement writes a table
    faults,       \* storage statements that have failed so far
    sched         \* the scheduler's callbacks: startup check, daily triggers

vars == <<polls, poll_id_seq, clock, votes, vreq, gen, last, faults, sched>>

VoteReqs == 1..NumVoteReqs
GenRuns == 1..NumGenRuns
DailyTriggers == 1..MaxDaily

Undefined == "undefined"
Null == "null"

\* ------------------------------------------------------ JavaScript values
\* A JSON value of the request body, as far as the handlers test it.
JsUndefined == [t |-> "undefined", v |-> 0]
JsNumber(n) == [t |-> "number", v |-> n]
JsString(n) == [t |-> "string", v |-> n]   \* the string holding the digits of n

\* !pollId || typeof pollId !== 'number'
InvalidPollId(pollId) == pollId.t # "number" \/ pollId.v = 0

\* InvalidSelection for a check that ignores the letter's case.
InvalidSelectionAnyCase(selection) == selection \notin {"A", "B", "a", "b"}

\* !selection || !['A', 'B'].includes(selection)
InvalidSelection(selection) == selection \notin {"A", "B"}

\* ResolveSessionId for a handler that falls back to 'anonymous', as the
\* listing does.
ResolveSessionIdAnonymous(header, body, generated) ==
    IF header \notin {Undefined, ""} THEN header
    ELSE IF body \notin {Undefined, ""} THEN body
    ELSE "anonymous"

\* ResolveSessionId for a handler that looks at the body first.
ResolveSessionIdBodyFirst(header, body, generated) ==
    IF body \notin {Undefined, ""} THEN body
    ELSE IF header \notin {Undefined, ""} THEN header
    ELSE generated

\* req.headers['x-session-id'] || req.body.sessionId || generateSessionId()
ResolveSessionId(header, body, generated) ==
    IF header \notin {Undefined, ""} THEN header
    ELSE IF body \notin {Undefined, ""} THEN body
    ELSE generated

\* generateSessionId(): 'sess_' and random base-36 digits; two calls are
\* taken not to collide, so the call of handler r is named after r.
generateSessionId(r) == "sess_" \o ToString(r)

\* req.headers['x-session-id'] || req.query.sessionId || 'anonymous'
ListSessionId(header, query) ==
    IF header \notin {Undefined, ""} THEN header
    ELSE IF query \notin {Undefined, ""} THEN query
    ELSE "anonymous"

\* ------------------------------------------------------------- the tables
\* PollDefaults for an is_active column that defaults to FALSE.
PollDefaultsInactive == [votes_a |-> 0, votes_b |-> 0, is_active |-> FALSE]

\* Column defaults of CREATE TABLE Polls.
PollDefaults == [votes_a |-> 0, votes_b |-> 0, is_active |-> TRUE]

\* nextval of the SERIAL sequence.
NextPollId(seq) == seq + 1

\* The row INSERT INTO Polls (...) VALUES (...) stores: the twelve columns
\* given, the others by default.
NewPollRow(pollType, aId, bId, week, year, now) ==
    [poll_type |-> pollType, player_a_id |-> aId, player_b_id |-> bId,
     week |-> week, year |-> year,
     votes_a |-> PollDefaults.votes_a, votes_b |-> PollDefaults.votes_b,
     is_active |-> PollDefaults.is_active, created_at |-> now]

InsertPollRow(P, id, row) == [i \in DOMAIN P \cup {id} |-> IF i = id THEN row ELSE P[i]]

\* DeactivateAll for a statement that also resets the counters of the polls
\* it retires.
DeactivateAllResetsCounters(P) ==
    [i \in DOMAIN P |-> [P[i] EXCEPT !.is_active = FALSE, !.votes_a = 0, !.votes_b = 0]]

\* DeactivateAll for an UPDATE whose WHERE clause matches no row.
DeactivateAllNoRow(P) == P

\* DeactivateAll for a statement that spares the newest poll.
DeactivateAllButNewest(P) ==
    [i \in DOMAIN P |->
        [P[i] EXCEPT !.is_active =
            P[i].is_active /\ \A j \in DOMAIN P : P[j].created_at <= P[i].created_at]]

\* UPDATE Polls SET is_active = false WHERE is_active = true
DeactivateAll(P) == [i \in DOMAIN P |-> [P[i] EXCEPT !.is_active = FALSE]]

\* VoteColumn with the counter of side A chosen whatever the selection.
VoteColumnAlwaysA(selection) == "votes_a"

VoteColumn(selection) == IF selection = "A" THEN "votes_a" ELSE "votes_b"

\* SELECT vote_id FROM Votes WHERE poll_id = $1 AND session_id = $2
ExistingVote(V, pollId, sessionId) ==
    {v \in V : v.poll_id = pollId /\ v.session_id = sessionId}

\* UniqueViolated for a Votes table declared without its UNIQUE constraint.
UniqueNotEnforced(V, pollId, sessionId) == FALSE

\* UNIQUE(poll_id, session_id) of Votes, checked against the committed rows.
UniqueViolated(V, pollId, sessionId) ==
    \E v \in V : v.poll_id = pollId /\ v.session_id = sessionId

\* poll_id INT NOT NULL REFERENCES Polls(poll_id)
ForeignKeyViolated(P, pollId) == pollId \notin DOMAIN P

\* ------------------------------------------------------- the listing query
\* ActiveIds for a query without its WHERE p.is_active = true.
AllIds(P) == DOMAIN P

ActiveIds(P) == {i \in DOMAIN P : P[i].is_active}

\* ORDER BY p.created_at DESC over the poll ids in S.
RECURSIVE OrderByCreatedDesc(_, _)
OrderByCreatedDesc(P, S) ==
    IF S = {} THEN <<>>
    ELSE LET newest == CHOOSE i \in S : \A j \in S : P[j].created_at <= P[i].created_at
         IN  <<newest>> \o OrderByCreatedDesc(P, S \ {newest})

RECURSIVE SetToSeq(_)
SetToSeq(S) ==
    IF S = {} THEN <<>>
    ELSE LET x == CHOOSE y \in S : TRUE IN <<x>> \o SetToSeq(S \ {x})

\* LEFT JOIN Votes v ON p.poll_id = v.poll_id AND v.session_id = $1, and the
\* row-to-object map of the handler: one object per matching vote, or one
\* with userVoted null when the poll has none for this session.
PollObject(P, id, userVoted) ==
    [id |-> id, type |-> P[id].poll_type,
     playerA |-> P[id].player_a_id, playerB |-> P[id].player_b_id,
     votesA |-> P[id].votes_a, votesB |-> P[id].votes_b,
     week |-> P[id].week, year |-> P[id].year, userVoted |-> userVoted]

\* JoinedRows for a join on the poll alone: every vote on the poll is
\* reported to the viewer as their own.
JoinedRowsAnySession(P, V, id, sessionId) ==
    LET mine == {v \in V : v.poll_id = id}
    IN  IF mine = {} THEN <<PollObject(P, id, Null)>>
        ELSE [k \in 1..Cardinality(mine) |-> PollObject(P, id, SetToSeq(mine)[k].selection)]

JoinedRows(P, V, id, sessionId) ==
    LET mine == ExistingVote(V, id, sessionId)
    IN  IF mine = {} THEN <<PollObject(P, id, Null)>>
        ELSE [k \in 1..Cardinality(mine) |-> PollObject(P, id, SetToSeq(mine)[k].selection)]

RECURSIVE JoinAll(_, _, _, _)
JoinAll(P, V, ids, sessionId) ==
    IF ids = <<>> THEN <<>>
    ELSE JoinedRows(P, V, Head(ids), sessionId) \o JoinAll(P, V, Tail(ids), sessionId)

Limit(rows, n) == SubSeq(rows, 1, IF Len(rows) < n THEN Len(rows) ELSE n)

\* The whole SELECT of GET /polls.
ListQuery(P, V, sessionId) ==
    Limit(JoinAll(P, V, OrderByCreatedDesc(P, ActiveIds(P)), sessionId), ListLimit)

\* ---------------------------------------------------------------- responses
NoResp == [op |-> "none", sid |-> Undefined, status |-> 0, error |-> "", data |-> <<>>, pollId |-> 0]
ListResp(sid, rows) == [op |-> "list", sid |-> sid, status |-> 200, error |-> "", data |-> rows, pollId |-> 0]
ListError == [op |-> "list", sid |-> Undefined, status |-> 500, error |-> "storage failure", data |-> <<>>, pollId |-> 0]
VoteResp(status, error) == [op |-> "vote", sid |-> Undefined, status |-> status, error |-> error, data |-> <<>>, pollId |-> 0]
CreateResp(status, error, id) == [op |-> "create", sid |-> Undefined, status |-> status, error |-> error, data |-> <<>>, pollId |-> id]

IdleVote == [pc |-> "idle", pollId |-> JsUndefined, selection |-> Undefined,
             sessionId |-> Undefined, status |-> 0, error |-> "",
             newval |-> 0, votesA |-> 0, votesB |-> 0]

\* trendingPlayers.rows, once the ranker query has returned.
NoTrending == [returned |-> FALSE, rows |-> <<>>]
Trending(rows) == [returned |-> TRUE, rows |-> rows]

IdleGen == [pc |-> "idle", week |-> 0, year |-> 0, trending |-> NoTrending,
            toCreate |-> <<>>, pollsCreated |-> 0, status |-> 0, error |-> ""]

\* The scheduler after startScheduler(): the startup timer set, the cron
\* trigger registered, nothing run yet.
IdleStartup == [pc |-> "delay", check |-> "none", found |-> 0, where |-> "try",
                run |-> 0, calls |-> 0]
IdleDaily == [pc |-> "idle", run |-> 0, calls |-> 0]
IdleSched == [startup |-> IdleStartup, daily |-> [d \in DailyTriggers |-> IdleDaily],
              crashed |-> FALSE]

Init ==
    /\ polls = <<>>
    /\ poll_id_seq = 0
    /\ clock = 0
    /\ votes = {}
    /\ vreq = [r \in VoteReqs |-> IdleVote]
    /\ gen = [g \in GenRuns |-> IdleGen]
    /\ last = NoResp
    /\ faults = 0
    /\ sched = IdleSched

\* A storage statement may fail (connection lost, timeout): pool.query or
\* client.query rejects.
CanFail == faults < MaxFaults

\* ListPolls for a handler that also retires the polls it does not return.
ListPollsRetires(header, query) ==
    LET sid == ListSessionId(header, query)
        rows == ListQuery(polls, votes, sid)
        shown == {rows[i].id : i \in 1..Len(rows)}
    IN  /\ last' = ListResp(sid, rows)
        /\ polls' = [i \in DOMAIN polls |->
                        [polls[i] EXCEPT !.is_active = polls[i].is_active /\ i \in shown]]
        /\ UNCHANGED <<poll_id_seq, clock, votes, vreq, gen, faults, sched>>

\* ------------------------------------------------------------ GET /polls
\* One query, no write.
ListPolls(header, query) ==
    LET sid == ListSessionId(header, query)
    IN  /\ last' = ListResp(sid, ListQuery(polls, votes, sid))
        /\ UNCHANGED <<polls, poll_id_seq, clock, votes, vreq, gen, faults, sched>>

ListPollsFail ==
    /\ CanFail
    /\ faults' = faults + 1
    /\ last' = ListError
    /\ UNCHANGED <<polls, poll_id_seq, clock, votes, vreq, gen, sched>>

\* ------------------------------------------------------------ POST /vote
\* What the handler sends: res.status(s).json({error}) and the end of it.
VoteRespond(r, status, error) ==
    vreq' = [vreq EXCEPT ![r].pc = "done", ![r].status = status, ![r].error = error]

\* Another transaction holds an uncommitted Votes row with this unique key:
\* the INSERT waits for it to end.
InsertWaits(r) ==
    \E o \in VoteReqs \ {r} :
        /\ vreq[o].pc \in {"update", "select", "commit"}
        /\ vreq[o].pollId.v = vreq[r].pollId.v
        /\ vreq[o].sessionId = vreq[r].sessionId

\* RowLocked for an increment that takes no row lock: a counter read
\* earlier and written back.
RowNeverLocked(p, r) == FALSE

\* Another transaction holds the row lock of poll p (it has updated the row
\* and not ended): an UPDATE of that row waits for it to end.
RowLocked(p, r) ==
    \E o \in VoteReqs \ {r} :
        /\ vreq[o].pc \in {"select", "commit"}
        /\ vreq[o].pollId.v = p

\* Lines 372-387: destructure the body, resolve the session, validate; ""
\* when the body passes.
VoteValidation(pollId, selection) ==
    IF InvalidPollId(pollId) THEN "Valid pollId is required"
    ELSE IF InvalidSelection(selection) THEN "Selection must be A or B"
    ELSE ""

\* A body that fails validation is answered 400 at once, before any await.
VoteRejected(pollId, selection, header, body) ==
    /\ VoteValidation(pollId, selection) # ""
    /\ last' = VoteResp(400, VoteValidation(pollId, selection))
    /\ UNCHANGED <<polls, poll_id_seq, clock, votes, vreq, gen, faults, sched>>

\* The handler's locals once the body has passed validation.
VoteLocals(r, pollId, selection, header, body) ==
    [vreq[r] EXCEPT !.pollId = pollId, !.selection = selection,
                    !.sessionId = ResolveSessionId(header, body, generateSessionId(r))]

\* VotePrecheck for a handler that takes votes on active polls only.
VotePrecheckActiveOnly(r, pollId, selection, header, body) ==
    /\ vreq[r].pc = "idle"
    /\ IF r = 1 THEN TRUE ELSE vreq[r - 1].pc # "idle"
    /\ VoteValidation(pollId, selection) = ""
    /\ LET locals == VoteLocals(r, pollId, selection, header, body)
       IN  vreq' = [vreq EXCEPT ![r] =
              IF locals.pollId.v \in DOMAIN polls \ ActiveIds(polls)
              THEN [locals EXCEPT !.pc = "done", !.status = 400, !.error = "Poll is not active"]
              ELSE IF ExistingVote(votes, locals.pollId.v, locals.sessionId) # {}
              THEN [locals EXCEPT !.pc = "done", !.status = 400,
                                  !.error = "You have already voted on this poll"]
              ELSE [locals EXCEPT !.pc = "insert"]]
    /\ UNCHANGED <<polls, poll_id_seq, clock, votes, gen, last, faults, sched>>

\* Lines 372-400: a body that passes validation, then the pre-check query,
\* outside the transaction. (Nothing is read between the request's arrival
\* and the query, so the two are one step.)
VotePrecheck(r, pollId, selection, header, body) ==
    /\ vreq[r].pc = "idle"
    /\ IF r = 1 THEN TRUE ELSE vreq[r - 1].pc # "idle"
    /\ VoteValidation(pollId, selection) = ""
    /\ LET locals == VoteLocals(r, pollId, selection, header, body)
       IN  vreq' = [vreq EXCEPT ![r] =
              IF ExistingVote(votes, locals.pollId.v, locals.sessionId) # {}
              THEN [locals EXCEPT !.pc = "done", !.status = 400,
                                  !.error = "You have already voted on this poll"]
              ELSE [locals EXCEPT !.pc = "insert"]]
    /\ UNCHANGED <<polls, poll_id_seq, clock, votes, gen, last, faults, sched>>

\* The pre-check query rejects: the outer catch.
VoteFail(r, pollId, selection, header, body) ==
    /\ vreq[r].pc = "idle"
    /\ IF r = 1 THEN TRUE ELSE vreq[r - 1].pc # "idle"
    /\ VoteValidation(pollId, selection) = ""
    /\ CanFail
    /\ faults' = faults + 1
    /\ vreq' = [vreq EXCEPT ![r] =
          [VoteLocals(r, pollId, selection, header, body) EXCEPT
              !.pc = "done", !.status = 500, !.error = "storage failure"]]
    /\ UNCHANGED <<polls, poll_id_seq, clock, votes, gen, last, sched>>

\* Lines 403-411: connect, BEGIN, INSERT INTO Votes. The unique index on
\* (poll_id, session_id) and the foreign key to Polls are checked here; a
\* violation rejects the query, and the catch rolls back and rethrows.
VoteInsert(r) ==
    /\ vreq[r].pc = "insert"
    /\ ~InsertWaits(r)
    /\ IF UniqueViolated(votes, vreq[r].pollId.v, vreq[r].sessionId)
       THEN VoteRespond(r, 500, "duplicate key value violates unique constraint")
       ELSE IF ForeignKeyViolated(polls, vreq[r].pollId.v)
       THEN VoteRespond(r, 500, "violates foreign key constraint")
       ELSE vreq' = [vreq EXCEPT ![r].pc = "update"]
    /\ UNCHANGED <<polls, poll_id_seq, clock, votes, gen, last, faults, sched>>

\* Lines 413-418: UPDATE Polls SET col = col + 1, on the latest committed row.
VoteUpdate(r) ==
    /\ vreq[r].pc = "update"
    /\ ~RowLocked(vreq[r].pollId.v, r)
    /\ vreq' = [vreq EXCEPT ![r].pc = "select",
                  ![r].newval = polls[vreq[r].pollId.v][VoteColumn(vreq[r].selection)] + 1]
    /\ UNCHANGED <<polls, poll_id_seq, clock, votes, gen, last, faults, sched>>

\* Lines 420-424: the read-back sees the transaction's own update.
VoteSelect(r) ==
    /\ vreq[r].pc = "select"
    /\ LET row == [polls[vreq[r].pollId.v] EXCEPT ![VoteColumn(vreq[r].selection)] = vreq[r].newval]
       IN  vreq' = [vreq EXCEPT ![r].pc = "commit", ![r].votesA = row.votes_a, ![r].votesB = row.votes_b]
    /\ UNCHANGED <<polls, poll_id_seq, clock, votes, gen, last, faults, sched>>

\* The Votes row a transaction has inserted; vote_id is SERIAL, one per insert.
VoteRow(r) ==
    [vote_id |-> r, poll_id |-> vreq[r].pollId.v,
     session_id |-> vreq[r].sessionId, selection |-> vreq[r].selection]

\* VoteCommit for an increment that also sets the poll active again.
VoteCommitRevivesPoll(r) ==
    /\ vreq[r].pc = "commit"
    /\ votes' = votes \cup {VoteRow(r)}
    /\ polls' = [polls EXCEPT ![vreq[r].pollId.v][VoteColumn(vreq[r].selection)] = vreq[r].newval,
                              ![vreq[r].pollId.v].is_active = TRUE]
    /\ VoteRespond(r, 200, "")
    /\ last' = NoResp
    /\ UNCHANGED <<poll_id_seq, clock, gen, faults, sched>>

\* VoteCommit for a handler that closes the poll to the listing once it has
\* taken a vote.
VoteCommitRetiresPoll(r) ==
    /\ vreq[r].pc = "commit"
    /\ votes' = votes \cup {VoteRow(r)}
    /\ polls' = [polls EXCEPT ![vreq[r].pollId.v][VoteColumn(vreq[r].selection)] = vreq[r].newval,
                              ![vreq[r].pollId.v].is_active = FALSE]
    /\ VoteRespond(r, 200, "")
    /\ last' = NoResp
    /\ UNCHANGED <<poll_id_seq, clock, gen, faults, sched>>

\* Lines 426-438: COMMIT makes the row and the new counter visible, then
\* the success response.
VoteCommit(r) ==
    /\ vreq[r].pc = "commit"
    /\ votes' = votes \cup {VoteRow(r)}
    /\ polls' = [polls EXCEPT ![vreq[r].pollId.v][VoteColumn(vreq[r].selection)] = vreq[r].newval]
    /\ VoteRespond(r, 200, "")
    /\ last' = NoResp
    /\ UNCHANGED <<poll_id_seq, clock, gen, faults, sched>>

\* VoteRollback for statements run outside a transaction: the row inserted
\* before the failing statement stays.
VoteRollbackKeepsRow(r) ==
    /\ vreq[r].pc \in {"insert", "update", "select", "commit"}
    /\ CanFail
    /\ faults' = faults + 1
    /\ votes' = IF vreq[r].pc = "insert" THEN votes ELSE votes \cup {VoteRow(r)}
    /\ last' = IF vreq[r].pc = "insert" THEN last ELSE NoResp
    /\ VoteRespond(r, 500, "storage failure")
    /\ UNCHANGED <<polls, poll_id_seq, clock, gen, sched>>

\* Lines 439-451: a statement of the transaction rejects; ROLLBACK drops the
\* uncommitted row and counter, the outer catch answers 500.
VoteRollback(r) ==
    /\ vreq[r].pc \in {"insert", "update", "select", "commit"}
    /\ CanFail
    /\ faults' = faults + 1
    /\ VoteRespond(r, 500, "storage failure")
    /\ UNCHANGED <<polls, poll_id_seq, clock, votes, gen, last, sched>>

\* ------------------------------------------------- week and year clamping
JsText == [t |-> "text", v |-> 0]          \* a non-empty string that holds no number
JsEmpty == [t |-> "empty", v |-> 0]        \* the empty string ''

\* req.body.week ? ... : ... -- undefined, 0 and '' are falsy; every other
\* number and string, '0' included, is truthy.
Truthy(x) == ~(x.t \in {"undefined", "empty"} \/ (x.t = "number" /\ x.v = 0))

Max(a, b) == IF a > b THEN a ELSE b
Min(a, b) == IF a < b THEN a ELSE b

\* validateWeek for a validator that caps the week and sets no floor.
validateWeekNoFloor(value) ==
    IF value.t \in {"undefined", "empty", "text"} THEN 1
    ELSE Min(18, value.v)

\* validateWeek(value, min = 1, max = 18): undefined and '' give the default;
\* parseInt of a number or of a string of digits is the number, of any other
\* string NaN, which gives the default too.
validateWeek(value) ==
    IF value.t \in {"undefined", "empty", "text"} THEN 1
    ELSE Max(1, Min(18, value.v))

\* validateYear(value, min = 2000, max = 2030)
validateYear(value) ==
    IF value.t \in {"undefined", "empty", "text"} THEN 2024
    ELSE Max(2000, Min(2030, value.v))

\* getCurrentNFLWeek(), from the whole weeks since 1 September.
getCurrentNFLWeek(weeksSinceStart) == Min(Max(weeksSinceStart, 1), 18)

\* The date of a run: whole weeks since 1 September, and the calendar year.
Today == [weeksSinceStart |-> 8, fullYear |-> 2026]

\* ------------------------------------------------------ POST /polls (create)
Side(id, name) == [present |-> TRUE, id |-> id, name |-> name]
NoSide == [present |-> FALSE, id |-> Undefined, name |-> Undefined]
Question(len) == [t |-> "string", len |-> len]
NoQuestion == [t |-> "undefined", len |-> 0]

PollTypes == <<"ADD_DROP", "START_SIT", "TRADE">>
PollTypeSet == {PollTypes[i] : i \in 1..Len(PollTypes)}

\* The request bodies tried.
CreateBodies ==
    {[pollType |-> "TRADE", question |-> Question(20), playerA |-> Side("p1", "P One"),
      playerB |-> Side("p2", "P Two"), week |-> JsNumber(10), year |-> JsNumber(2024)],
     [pollType |-> "POLL", question |-> Question(20), playerA |-> Side("p1", "P One"),
      playerB |-> Side("p2", "P Two"), week |-> JsNumber(10), year |-> JsNumber(2024)],
     [pollType |-> "TRADE", question |-> Question(20), playerA |-> Side("p1", "P One"),
      playerB |-> NoSide, week |-> JsNumber(10), year |-> JsNumber(2024)],
     [pollType |-> "TRADE", question |-> Question(20), playerA |-> Side(Undefined, "P One"),
      playerB |-> Side("p2", "P Two"), week |-> JsNumber(10), year |-> JsNumber(2024)],
     [pollType |-> "TRADE", question |-> Question(20), playerA |-> Side("p1", "P One"),
      playerB |-> Side("p2", Undefined), week |-> JsNumber(10), year |-> JsNumber(2024)],
     [pollType |-> "TRADE", question |-> Question(0), playerA |-> Side("p1", "P One"),
      playerB |-> Side("p2", "P Two"), week |-> JsNumber(10), year |-> JsNumber(2024)],
     [pollType |-> "TRADE", question |-> Question(MaxQuestionLen), playerA |-> Side("p1", "P One"),
      playerB |-> Side("p2", "P Two"), week |-> JsNumber(10), year |-> JsNumber(2024)],
     [pollType |-> "TRADE", question |-> Question(MaxQuestionLen + 1), playerA |-> Side("p1", "P One"),
      playerB |-> Side("p2", "P Two"), week |-> JsNumber(10), year |-> JsNumber(2024)]}

\* Lines 459-478: the checks before the insert; "" when the body passes.
CreateValidation(b) ==
    IF b.pollType \notin PollTypeSet THEN "Invalid poll type"
    ELSE IF b.question.t = "undefined" \/ b.question.len = 0 \/ b.question.len > MaxQuestionLen
    THEN "Question is required and must be under 500 characters"
    ELSE IF ~b.playerA.present \/ ~b.playerB.present
    THEN "Both playerA and playerB are required"
    ELSE ""

\* NOT NULL on player_a_id, player_a_name, player_b_id, player_b_name: an
\* undefined parameter is sent as NULL.
NotNullViolated(b) ==
    Undefined \in {b.playerA.id, b.playerA.name, b.playerB.id, b.playerB.name}

\* Rows the generator runs in flight may still insert.
RECURSIVE PendingInserts(_)
PendingInserts(G) ==
    IF G = {} THEN 0
    ELSE LET g == CHOOSE x \in G : TRUE
         IN  (IF gen[g].pc \in {"deactivate", "rank"} THEN BatchSize
              ELSE IF gen[g].pc = "insert" THEN Len(gen[g].toCreate) ELSE 0)
             + PendingInserts(G \ {g})

\* The rows the Polls table may come to hold: MaxPolls, and a batch more for
\* every generator handler beyond NumGenRuns.
Capacity == MaxPolls + BatchSize * (Cardinality(DOMAIN gen) - NumGenRuns)

\* The Polls table has room for n more rows beside those of the runs in flight.
Room(n) == poll_id_seq + PendingInserts(DOMAIN gen) + n <= Capacity

CreateRejected(b) ==
    /\ CreateValidation(b) # ""
    /\ last' = CreateResp(400, CreateValidation(b), 0)
    /\ UNCHANGED <<polls, poll_id_seq, clock, votes, vreq, gen, faults, sched>>

\* Lines 480-513: the insert, one statement committed on its own.
CreatePoll(b) ==
    /\ CreateValidation(b) = ""
    /\ ~NotNullViolated(b)
    /\ Room(1)
    /\ LET id == NextPollId(poll_id_seq)
           row == NewPollRow(b.pollType, b.playerA.id, b.playerB.id,
                             validateWeek(b.week), validateYear(b.year), clock + 1)
       IN  /\ polls' = InsertPollRow(polls, id, row)
           /\ poll_id_seq' = id
           /\ clock' = clock + 1
           /\ last' = CreateResp(200, "", id)
    /\ UNCHANGED <<votes, vreq, gen, faults, sched>>

\* The insert violates NOT NULL: no row is stored, the catch answers 500.
\* The SERIAL default has drawn its sequence value before the constraint is
\* checked, and a sequence does not roll back: the id is spent.
CreateNotNull(b) ==
    /\ CreateValidation(b) = ""
    /\ NotNullViolated(b)
    /\ Room(1)
    /\ poll_id_seq' = NextPollId(poll_id_seq)
    /\ last' = CreateResp(500, "violates not-null constraint", 0)
    /\ UNCHANGED <<polls, clock, votes, vreq, gen, faults, sched>>

CreateFail(b) ==
    /\ CreateValidation(b) = ""
    /\ CanFail
    /\ faults' = faults + 1
    /\ last' = CreateResp(500, "storage failure", 0)
    /\ UNCHANGED <<polls, poll_id_seq, clock, votes, vreq, gen, sched>>

\* ---------------------------------------------------- POST /generate-daily
\* The ranker's rows: ORDER BY position, ppg DESC, so a position's players
\* are adjacent and in rank order. sizes[i] players at position names[i].
PositionNames == <<"DEF", "K", "QB", "RB", "TE", "WR">>

RECURSIVE RankedRows(_, _)
RankedRows(sizes, i) ==
    IF i > Len(sizes) THEN <<>>
    ELSE [k \in 1..sizes[i] |->
             [playerid |-> PositionNames[i] \o ToString(k), position |-> PositionNames[i]]]
         \o RankedRows(sizes, i + 1)

\* The ranker results tried: too few rows (two positions of two players),
\* six rows with no position holding two, and six or more with the first
\* pair at the third or at the first position.
RankerResults ==
    {RankedRows(<<0, 0, 2, 2>>, 1),
     RankedRows(<<1, 1, 1, 1, 1, 1>>, 1),
     RankedRows(<<1, 1, 3, 2>>, 1),
     RankedRows(<<2, 1, 1, 1, 1>>, 1)}

\* Lines 563-569: playersByPosition, its keys in insertion order.
RECURSIVE PositionOrder(_, _)
PositionOrder(rows, seen) ==
    IF rows = <<>> THEN <<>>
    ELSE IF Head(rows).position \in seen THEN PositionOrder(Tail(rows), seen)
    ELSE <<Head(rows).position>> \o PositionOrder(Tail(rows), seen \cup {Head(rows).position})

\* PlayersAt for rows that come lowest ppg first.
PlayersAtReversed(rows, position) ==
    LET group == SelectSeq(rows, LAMBDA p : p.position = position)
    IN  [k \in 1..Len(group) |-> group[Len(group) + 1 - k]]

\* playersByPosition[position]: the position's rows, in the ranker's order.
PlayersAt(rows, position) == SelectSeq(rows, LAMBDA p : p.position = position)

HasType(pollsToCreate, pollType) ==
    \E i \in 1..Len(pollsToCreate) : pollsToCreate[i].pollType = pollType

\* AddTypes for a loop that gives a position one poll, of the first
\* category still missing.
RECURSIVE AddTypesOnePerPosition(_, _, _)
AddTypesOnePerPosition(pollsToCreate, players, t) ==
    IF t > Len(PollTypes) THEN pollsToCreate
    ELSE IF HasType(pollsToCreate, PollTypes[t])
    THEN AddTypesOnePerPosition(pollsToCreate, players, t + 1)
    ELSE Append(pollsToCreate,
                [pollType |-> PollTypes[t], playerA |-> players[1], playerB |-> players[2]])

\* Lines 582-593: the loop over pollTypes for one position's players.
RECURSIVE AddTypes(_, _, _)
AddTypes(pollsToCreate, players, t) ==
    IF t > Len(PollTypes) THEN pollsToCreate
    ELSE IF HasType(pollsToCreate, PollTypes[t]) THEN AddTypes(pollsToCreate, players, t + 1)
    ELSE LET pushed == Append(pollsToCreate,
                          [pollType |-> PollTypes[t], playerA |-> players[1], playerB |-> players[2]])
         IN  IF Len(pushed) >= BatchSize THEN pushed ELSE AddTypes(pushed, players, t + 1)

\* Lines 580-596: the loop over the positions.
RECURSIVE AddPositions(_, _, _)
AddPositions(pollsToCreate, rows, positions) ==
    IF positions = <<>> THEN pollsToCreate
    ELSE LET players == PlayersAt(rows, Head(positions))
         IN  IF Len(players) >= 2
             THEN LET added == AddTypes(pollsToCreate, players, 1)
                  IN  IF Len(added) >= BatchSize THEN added
                      ELSE AddPositions(added, rows, Tail(positions))
             ELSE AddPositions(pollsToCreate, rows, Tail(positions))

BuildPolls(rows) == AddPositions(<<>>, rows, PositionOrder(rows, {}))

GenRespond(g, status, error) ==
    gen' = [gen EXCEPT ![g].pc = "done", ![g].status = status, ![g].error = error]

\* Lines 526-527: the week and year of the run.
GenStart(g, week, year) ==
    /\ gen[g].pc = "idle"
    /\ IF g = 1 THEN TRUE ELSE gen[g - 1].pc # "idle"
    /\ Room(BatchSize)
    /\ gen' = [gen EXCEPT ![g].pc = "deactivate",
                 ![g].week = IF Truthy(week) THEN validateWeek(week)
                             ELSE getCurrentNFLWeek(Today.weeksSinceStart),
                 ![g].year = IF Truthy(year) THEN validateYear(year) ELSE Today.fullYear]
    /\ UNCHANGED <<polls, poll_id_seq, clock, votes, vreq, last, faults>>

\* A /generate-daily request of a client.
GenReceive(g, week, year) == GenStart(g, week, year) /\ UNCHANGED sched

\* GenDeactivate for a run that deletes the polls it retires; their Votes
\* rows go with them (ON DELETE CASCADE).
GenDeactivatePrunes(g) ==
    /\ gen[g].pc = "deactivate"
    /\ \A p \in ActiveIds(polls) : ~RowLocked(p, 0)
    /\ polls' = [i \in DOMAIN polls \ ActiveIds(polls) |-> polls[i]]
    /\ votes' = {v \in votes : v.poll_id \notin ActiveIds(polls)}
    /\ gen' = [gen EXCEPT ![g].pc = "rank"]
    /\ last' = NoResp
    /\ UNCHANGED <<poll_id_seq, clock, vreq, faults, sched>>

\* GenDeactivate for a deactivation run inside a transaction that the run
\* commits at its end: other connections do not see it yet.
GenDeactivateIsolated(g) ==
    /\ gen[g].pc = "deactivate"
    /\ gen' = [gen EXCEPT ![g].pc = "rank"]
    /\ UNCHANGED <<polls, poll_id_seq, clock, votes, vreq, last, faults, sched>>

\* Lines 529-532: the bulk deactivation, a statement committed on its own;
\* it waits for the row locks of the polls it updates.
GenDeactivate(g) ==
    /\ gen[g].pc = "deactivate"
    /\ \A p \in ActiveIds(polls) : ~RowLocked(p, 0)
    /\ polls' = DeactivateAll(polls)
    /\ gen' = [gen EXCEPT ![g].pc = "rank"]
    /\ last' = NoResp
    /\ UNCHANGED <<poll_id_seq, clock, votes, vreq, faults, sched>>

\* TooFew for a threshold of four rows.
TooFewBelowFour(rows) == Len(rows) < 4

\* trendingPlayers.rows.length < 6
TooFew(rows) == Len(rows) < MinTrending

\* Lines 553-596: the ranker query, the threshold, the pairing. With too few
\* rows the run ends here; with an empty batch the insert loop runs no
\* statement and the response follows at once.
GenRank(g, rows) ==
    /\ gen[g].pc = "rank"
    /\ IF TooFew(rows) \/ BuildPolls(rows) = <<>>
       THEN gen' = [gen EXCEPT ![g].pc = "done", ![g].status = 200, ![g].error = "",
                               ![g].trending = Trending(rows)]
       ELSE gen' = [gen EXCEPT ![g].pc = "insert", ![g].trending = Trending(rows),
                               ![g].toCreate = BuildPolls(rows)]
    /\ UNCHANGED <<polls, poll_id_seq, clock, votes, vreq, last, faults, sched>>

\* Lines 598-632: one insert of the loop; after the last, the response.
GenInsert(g) ==
    /\ gen[g].pc = "insert"
    /\ LET poll == Head(gen[g].toCreate)
           id == NextPollId(poll_id_seq)
           row == NewPollRow(poll.pollType, poll.playerA.playerid, poll.playerB.playerid,
                             gen[g].week, gen[g].year, clock + 1)
           left == Tail(gen[g].toCreate)
       IN  /\ polls' = InsertPollRow(polls, id, row)
           /\ poll_id_seq' = id
           /\ clock' = clock + 1
           /\ gen' = [gen EXCEPT ![g].toCreate = left,
                        ![g].pollsCreated = gen[g].pollsCreated + 1,
                        ![g].pc = IF left = <<>> THEN "done" ELSE "insert",
                        ![g].status = IF left = <<>> THEN 200 ELSE 0]
    /\ last' = NoResp
    /\ UNCHANGED <<votes, vreq, faults, sched>>

\* GenFail for a batch inserted in one transaction: the rows the run has
\* inserted go with the failure.
GenFailRollsBack(g) ==
    /\ gen[g].pc \in {"deactivate", "rank", "insert"}
    /\ CanFail
    /\ faults' = faults + 1
    /\ GenRespond(g, 500, "storage failure")
    /\ polls' = [i \in {j \in DOMAIN polls : j <= poll_id_seq - gen[g].pollsCreated} |-> polls[i]]
    /\ last' = NoResp
    /\ UNCHANGED <<poll_id_seq, clock, votes, vreq, sched>>

\* A query of the run rejects: the catch answers 500; what is stored stays.
GenFail(g) ==
    /\ gen[g].pc \in {"deactivate", "rank", "insert"}
    /\ CanFail
    /\ faults' = faults + 1
    /\ GenRespond(g, 500, "storage failure")
    /\ UNCHANGED <<polls, poll_id_seq, clock, votes, vreq, last, sched>>

\* ------------------------------------------------------------ scheduler.js
\* What the generator call of the scheduler comes to once the handler has
\* answered: a response, or an error (a status other than 2xx).
CallOutcome(g) == IF gen[g].status = 200 THEN "response" ELSE "error"

\* What the awaited POST may settle with. The timeout of 30000 ms, on which
\* axios rejects, may pass at any point, also once the handler has answered
\* and its answer is on the way; the handler's answer can only arrive after
\* the handler has given it.
AwaitOutcome(g) ==
    IF gen[g].pc = "done" THEN {CallOutcome(g), "error"} ELSE {"error"}

\* generatePolls for a function whose catch throws the error again.
generatePollsRethrows(outcome) == IF outcome = "error" THEN "throw" ELSE "data"

\* generatePolls(): response.data, or null from its catch; it never throws.
generatePolls(outcome) == IF outcome = "error" THEN "null" ELSE "data"

\* NoneActive for a test that generates when polls were found.
SomeActive(activePolls) == Len(activePolls) # 0

\* activePolls.length === 0
NoneActive(activePolls) == Len(activePolls) = 0

\* Lines 54-57, 19-33: the startup timer fires; GET /polls without a session.
\* With no active poll the try block goes on to call generatePolls.
SchedStartupCheck ==
    /\ sched.startup.pc = "delay"
    /\ LET activePolls == ListQuery(polls, votes, ListSessionId(Undefined, Undefined))
       IN  sched' = [sched EXCEPT !.startup.check = "ok",
                                  !.startup.found = Len(activePolls),
                                  !.startup.pc = IF NoneActive(activePolls) THEN "call" ELSE "done"]
    /\ UNCHANGED <<polls, poll_id_seq, clock, votes, vreq, gen, last, faults>>

\* Lines 34-38: the GET rejects; the catch block calls generatePolls.
SchedStartupCheckFail ==
    /\ sched.startup.pc = "delay"
    /\ sched' = [sched EXCEPT !.startup.check = "failed", !.startup.pc = "call",
                              !.startup.where = "catch"]
    /\ UNCHANGED <<polls, poll_id_seq, clock, votes, vreq, gen, last, faults>>

\* checkAndGeneratePolls after a generatePolls() call has returned or thrown:
\* a throw inside the try block enters the catch block, which calls again; a
\* throw inside the catch block leaves the callback.
AfterStartupCall(startup, result) ==
    IF result = "throw" /\ startup.where = "try"
    THEN [startup EXCEPT !.pc = "call", !.where = "catch", !.run = 0]
    ELSE [startup EXCEPT !.pc = "done", !.run = 0]

\* Lines 8-10 from lines 30 or 38: the POST reaches the generate-daily handler.
SchedStartupCall ==
    /\ sched.startup.pc = "call"
    /\ \E g \in DOMAIN gen :
          /\ GenStart(g, JsUndefined, JsUndefined)
          /\ sched' = [sched EXCEPT !.startup.pc = "await", !.startup.run = g,
                                    !.startup.calls = sched.startup.calls + 1]

\* The POST reaches no handler: axios rejects.
SchedStartupCallFail ==
    /\ sched.startup.pc = "call"
    /\ LET result == generatePolls("error")
           called == [sched.startup EXCEPT !.calls = sched.startup.calls + 1]
       IN  sched' = [sched EXCEPT !.startup = AfterStartupCall(called, result),
                                  !.crashed = sched.crashed
                                      \/ (result = "throw" /\ called.where = "catch")]
    /\ UNCHANGED <<polls, poll_id_seq, clock, votes, vreq, gen, last, faults>>

\* Lines 8-16: the awaited POST of the startup call settles: the handler has
\* answered, or the timeout has passed and the run goes on by itself.
SchedStartupReturn ==
    /\ sched.startup.pc = "await"
    /\ \E outcome \in AwaitOutcome(sched.startup.run) :
          LET result == generatePolls(outcome)
          IN  sched' = [sched EXCEPT !.startup = AfterStartupCall(sched.startup, result),
                                     !.crashed = sched.crashed
                                         \/ (result = "throw" /\ sched.startup.where = "catch")]
    /\ UNCHANGED <<polls, poll_id_seq, clock, votes, vreq, gen, last, faults>>

\* Lines 44-46: the cron trigger fires and its callback calls generatePolls.
SchedDailyFire(d) ==
    /\ sched.daily[d].pc = "idle"
    /\ IF d = 1 THEN TRUE ELSE sched.daily[d - 1].pc # "idle"
    /\ \E g \in DOMAIN gen :
          /\ GenStart(g, JsUndefined, JsUndefined)
          /\ sched' = [sched EXCEPT !.daily[d].pc = "await", !.daily[d].run = g,
                                    !.daily[d].calls = sched.daily[d].calls + 1]

\* The trigger fires and the POST reaches no handler.
SchedDailyFireFail(d) ==
    /\ sched.daily[d].pc = "idle"
    /\ IF d = 1 THEN TRUE ELSE sched.daily[d - 1].pc # "idle"
    /\ sched' = [sched EXCEPT !.daily[d].pc = "done",
                              !.daily[d].calls = sched.daily[d].calls + 1,
                              !.crashed = sched.crashed \/ generatePolls("error") = "throw"]
    /\ UNCHANGED <<polls, poll_id_seq, clock, votes, vreq, gen, last, faults>>

\* The awaited POST of the daily call settles: the handler has answered, or
\* the timeout has passed; a throw leaves the callback.
SchedDailyReturn(d) ==
    /\ sched.daily[d].pc = "await"
    /\ \E outcome \in AwaitOutcome(sched.daily[d].run) :
          sched' = [sched EXCEPT !.daily[d].pc = "done", !.daily[d].run = 0,
                                 !.crashed = sched.crashed
                                     \/ generatePolls(outcome) = "throw"]
    /\ UNCHANGED <<polls, poll_id_seq, clock, votes, vreq, gen, last, faults>>

\* ---------------------------------------------------------- the requests
\* The /vote requests tried: body.pollId, body.selection, the x-session-id
\* header and body.sessionId.
VoteBody(pollId, selection, header, sessionId) ==
    [pollId |-> pollId, selection |-> selection, header |-> header, sessionId |-> sessionId]

ValidVoteBodies ==
    {VoteBody(JsNumber(1), "A", "s1", Undefined),
     VoteBody(JsNumber(1), "B", "s1", Undefined),
     VoteBody(JsNumber(1), "A", Undefined, Undefined),
     VoteBody(JsNumber(1), "B", Undefined, Undefined),
     VoteBody(JsNumber(2), "B", "s1", Undefined)}

InvalidVoteBodies ==
    {VoteBody(JsUndefined, "A", "s1", Undefined),
     VoteBody(JsString(1), "A", "s1", Undefined),
     VoteBody(JsNumber(0), "B", "s1", Undefined),
     VoteBody(JsNumber(1), "a", "s1", Undefined),
     VoteBody(JsNumber(1), Undefined, "s1", Undefined)}

ListSessions == {Undefined, "s1"}
GenWeeks == {JsUndefined}
GenYears == {JsUndefined}

ValidCreateBodies == {b \in CreateBodies : CreateValidation(b) = "" /\ ~NotNullViolated(b)}

\* The requests of the whole-system runs.
SystemVoteBodies ==
    {VoteBody(JsNumber(1), "A", "s1", Undefined),
     VoteBody(JsNumber(2), "B", "s1", Undefined),
     VoteBody(JsNumber(1), "B", Undefined, Undefined)}
SystemListSessions == {"s1"}
SystemRankerResults ==
    {RankedRows(<<0, 0, 2, 2>>, 1),
     RankedRows(<<1, 1, 1, 1, 1, 1>>, 1),
     RankedRows(<<1, 1, 3, 2>>, 1)}

NoVoteInFlight == \A r \in VoteReqs : vreq[r].pc \in {"idle", "done"}

\* The four handlers side by side, on the requests that pass validation:
\* vote submissions one at a time beside list, create and generator runs,
\* the generator's queries failing at any point. (Concurrent submissions and
\* their storage failures are the subject of SpecVotes, malformed requests
\* of SpecRequests.)
Next ==
    \/ \E h \in SystemListSessions : ListPolls(h, Undefined)
    \/ \E r \in VoteReqs, b \in SystemVoteBodies :
          NoVoteInFlight /\ VotePrecheck(r, b.pollId, b.selection, b.header, b.sessionId)
    \/ \E r \in VoteReqs : VoteInsert(r)
    \/ \E r \in VoteReqs : VoteUpdate(r)
    \/ \E r \in VoteReqs : VoteSelect(r)
    \/ \E r \in VoteReqs : VoteCommit(r)
    \/ \E b \in ValidCreateBodies : CreatePoll(b)
    \/ \E g \in GenRuns, w \in GenWeeks, y \in GenYears : GenReceive(g, w, y)
    \/ \E g \in GenRuns : GenDeactivate(g)
    \/ \E g \in GenRuns, rows \in SystemRankerResults : GenRank(g, rows)
    \/ \E g \in GenRuns : GenInsert(g)
    \/ \E g \in GenRuns : GenFail(g)

Spec == Init /\ [][Next]_vars

\* Generator runs on every ranker result tried, beside create and list
\* requests, the run's queries failing at any point; no vote.
NextGenerator ==
    \/ \E h \in SystemListSessions : ListPolls(h, Undefined)
    \/ \E b \in ValidCreateBodies : CreatePoll(b)
    \/ \E g \in GenRuns, w \in GenWeeks, y \in GenYears : GenReceive(g, w, y)
    \/ \E g \in GenRuns : GenDeactivate(g)
    \/ \E g \in GenRuns, rows \in RankerResults : GenRank(g, rows)
    \/ \E g \in GenRuns : GenInsert(g)
    \/ \E g \in GenRuns : GenFail(g)

SpecGenerator == Init /\ [][NextGenerator]_vars

\* The scheduler of a starting process beside create requests: the startup
\* check, the daily trigger and the generator runs they call, any request
\* or query failing.
NextScheduler ==
    \/ \E b \in ValidCreateBodies : CreatePoll(b)
    \/ SchedStartupCheck
    \/ SchedStartupCheckFail
    \/ SchedStartupCall
    \/ SchedStartupCallFail
    \/ SchedStartupReturn
    \/ \E d \in DailyTriggers : SchedDailyFire(d)
    \/ \E d \in DailyTriggers : SchedDailyFireFail(d)
    \/ \E d \in DailyTriggers : SchedDailyReturn(d)
    \/ \E g \in GenRuns : GenDeactivate(g)
    \/ \E g \in GenRuns, rows \in SystemRankerResults : GenRank(g, rows)
    \/ \E g \in GenRuns : GenInsert(g)
    \/ \E g \in GenRuns : GenFail(g)

SpecScheduler == Init /\ [][NextScheduler]_vars

\* Concurrent vote submissions on a table of two polls, as one create
\* request, one generator run that found too few players and a second create
\* request leave it: poll 1 inactive, poll 2 active, no vote yet.
StoredPoll(now) == NewPollRow("TRADE", "p1", "p2", validateWeek(JsNumber(10)),
                              validateYear(JsNumber(2024)), now)

InitVotes ==
    /\ polls = InsertPollRow(DeactivateAll(InsertPollRow(<<>>, 1, StoredPoll(1))), 2, StoredPoll(2))
    /\ poll_id_seq = 2
    /\ clock = 2
    /\ votes = {}
    /\ vreq = [r \in VoteReqs |-> IdleVote]
    /\ gen = [g \in GenRuns |-> IdleGen]
    /\ last = NoResp
    /\ faults = 0
    /\ sched = IdleSched

UnknownPollBodies == {VoteBody(JsNumber(3), "A", "s1", Undefined)}

\* Requests that name a session in the body, with and without the header.
SessionVoteBodies ==
    {VoteBody(JsNumber(2), "A", "s1", "s2"),
     VoteBody(JsNumber(2), "A", Undefined, "s2")}

VotesBodies == ValidVoteBodies \cup UnknownPollBodies \cup SessionVoteBodies

NextVotes ==
    \/ \E r \in VoteReqs, b \in VotesBodies :
          VotePrecheck(r, b.pollId, b.selection, b.header, b.sessionId)
    \/ \E r \in VoteReqs, b \in VotesBodies :
          VoteFail(r, b.pollId, b.selection, b.header, b.sessionId)
    \/ \E r \in VoteReqs : VoteInsert(r)
    \/ \E r \in VoteReqs : VoteUpdate(r)
    \/ \E r \in VoteReqs : VoteSelect(r)
    \/ \E r \in VoteReqs : VoteCommit(r)
    \/ \E r \in VoteReqs : VoteRollback(r)

SpecVotes == InitVotes /\ [][NextVotes]_vars

\* The vote, create and list handlers on every request body tried, the
\* malformed ones included; requests one at a time, no generator run. The
\* create requests whose insert violates NOT NULL are those of SpecCreate.
NextRequests ==
    \/ \E h \in ListSessions : ListPolls(h, Undefined)
    \/ \E b \in InvalidVoteBodies : VoteRejected(b.pollId, b.selection, b.header, b.sessionId)
    \/ \E r \in VoteReqs, b \in ValidVoteBodies \cup InvalidVoteBodies :
          NoVoteInFlight /\ VotePrecheck(r, b.pollId, b.selection, b.header, b.sessionId)
    \/ \E r \in VoteReqs : VoteInsert(r)
    \/ \E r \in VoteReqs : VoteUpdate(r)
    \/ \E r \in VoteReqs : VoteSelect(r)
    \/ \E r \in VoteReqs : VoteCommit(r)
    \/ \E b \in CreateBodies : CreateRejected(b)
    \/ \E b \in CreateBodies : CreatePoll(b)
    \/ \E b \in CreateBodies : CreateFail(b)
    \/ ListPollsFail

SpecRequests == Init /\ [][NextRequests]_vars

\* The create handler on every request body tried, beside list requests:
\* bodies rejected, stored, failing on NOT NULL with their id spent, and
\* failing in storage.
NextCreate ==
    \/ \E h \in SystemListSessions : ListPolls(h, Undefined)
    \/ \E b \in CreateBodies : CreateRejected(b)
    \/ \E b \in CreateBodies : CreatePoll(b)
    \/ \E b \in CreateBodies : CreateNotNull(b)
    \/ \E b \in CreateBodies : CreateFail(b)

SpecCreate == Init /\ [][NextCreate]_vars

\* The life of a poll: vote submissions one at a time on the first poll
\* stored, with and without a session header, their statements failing at
\* any point, beside list and create requests and generator runs that
\* deactivate the poll, before, between and after the votes.
LifecycleVoteBodies ==
    {VoteBody(JsNumber(1), "A", "s1", Undefined),
     VoteBody(JsNumber(1), "B", Undefined, Undefined)}

NextLifecycle ==
    \/ \E h \in SystemListSessions : ListPolls(h, Undefined)
    \/ \E r \in VoteReqs, b \in LifecycleVoteBodies :
          NoVoteInFlight /\ VotePrecheck(r, b.pollId, b.selection, b.header, b.sessionId)
    \/ \E r \in VoteReqs : VoteInsert(r)
    \/ \E r \in VoteReqs : VoteUpdate(r)
    \/ \E r \in VoteReqs : VoteSelect(r)
    \/ \E r \in VoteReqs : VoteCommit(r)
    \/ \E r \in VoteReqs : VoteRollback(r)
    \/ \E b \in ValidCreateBodies : CreatePoll(b)
    \/ \E g \in GenRuns, w \in GenWeeks, y \in GenYears : GenReceive(g, w, y)
    \/ \E g \in GenRuns : GenDeactivate(g)
    \/ \E g \in GenRuns, rows \in SystemRankerResults : GenRank(g, rows)
    \/ \E g \in GenRuns : GenInsert(g)
    \/ \E g \in GenRuns : GenFail(g)

SpecLifecycle == Init /\ [][NextLifecycle]_vars

\* The week and year of create requests and generator runs: absent, the
\* empty string, not a number, zero, below, inside and above the validator's
\* ranges, as numbers and as strings of digits. A body varies one of the two.
ClampWeeks ==
    {JsUndefined, JsEmpty, JsText, JsNumber(0), JsNumber(0 - 3), JsNumber(7), JsNumber(19),
     JsString(12)}
ClampYears ==
    {JsUndefined, JsEmpty, JsText, JsNumber(0), JsNumber(1999), JsNumber(2025), JsNumber(2031),
     JsString(2001)}

ClampCreateBodies ==
    LET body == [pollType |-> "TRADE", question |-> Question(20), playerA |-> Side("p1", "P One"),
                 playerB |-> Side("p2", "P Two"), week |-> JsNumber(10), year |-> JsNumber(2024)]
    IN  {[body EXCEPT !.week = w] : w \in ClampWeeks} \cup {[body EXCEPT !.year = y] : y \in ClampYears}

ClampOverrides ==
    {<<w, JsUndefined>> : w \in ClampWeeks} \cup {<<JsUndefined, y>> : y \in ClampYears}

ClampRankerResults == {RankedRows(<<1, 1, 3, 2>>, 1)}

NextWeekYear ==
    \/ \E b \in ClampCreateBodies : CreatePoll(b)
    \/ \E g \in GenRuns, o \in ClampOverrides : GenReceive(g, o[1], o[2])
    \/ \E g \in GenRuns : GenDeactivate(g)
    \/ \E g \in GenRuns, rows \in ClampRankerResults : GenRank(g, rows)
    \/ \E g \in GenRuns : GenInsert(g)

SpecWeekYear == Init /\ [][NextWeekYear]_vars

\* Overlapping generator runs: one handler more than NumGenRuns, so that a
\* run may start while another is between its deactivation and its last
\* insert; the runs are called by the startup check, by the daily trigger
\* and by clients, beside create requests.
OverlapRuns == 1..(NumGenRuns + 1)

InitOverlap ==
    /\ polls = <<>>
    /\ poll_id_seq = 0
    /\ clock = 0
    /\ votes = {}
    /\ vreq = [r \in VoteReqs |-> IdleVote]
    /\ gen = [g \in OverlapRuns |-> IdleGen]
    /\ last = NoResp
    /\ faults = 0
    /\ sched = IdleSched

NextOverlap ==
    \/ \E b \in ValidCreateBodies : CreatePoll(b)
    \/ SchedStartupCheck
    \/ SchedStartupCall
    \/ SchedStartupReturn
    \/ \E d \in DailyTriggers : SchedDailyFire(d)
    \/ \E d \in DailyTriggers : SchedDailyReturn(d)
    \/ \E g \in OverlapRuns, w \in GenWeeks, y \in GenYears : GenReceive(g, w, y)
    \/ \E g \in OverlapRuns : GenDeactivate(g)
    \/ \E g \in OverlapRuns, rows \in SystemRankerResults : GenRank(g, rows)
    \/ \E g \in OverlapRuns : GenInsert(g)

SpecOverlap == InitOverlap /\ [][NextOverlap]_vars

\* ================================================================ claims
Done(r) == vreq[r].pc = "done"
Succeeded(r) == Done(r) /\ vreq[r].status = 200
StorageFailed(r) == Done(r) /\ vreq[r].error = "storage failure"
AlreadyVoted(r) ==
    Done(r) /\ vreq[r].status = 400 /\ vreq[r].error = "You have already voted on this poll"
SamePair(r, o) ==
    vreq[r].pollId.v = vreq[o].pollId.v /\ vreq[r].sessionId = vreq[o].sessionId
RowsOf(p, selection) == {v \in votes : v.poll_id = p /\ v.selection = selection}

\* C1: of two completed vote submissions for the same (poll, session), on a
\* stored poll and with no storage failure, exactly one succeeded and the
\* other was answered with the 'already voted' client error.
C1_SecondIsDuplicateVoteError ==
    \A r \in VoteReqs, o \in VoteReqs :
        (/\ r # o /\ Done(r) /\ Done(o) /\ SamePair(r, o)
         /\ vreq[r].pollId.v \in DOMAIN polls
         /\ ~StorageFailed(r) /\ ~StorageFailed(o)
         /\ vreq[r].error # "violates foreign key constraint"
         /\ vreq[o].error # "violates foreign key constraint")
        => \/ Succeeded(r) /\ AlreadyVoted(o)
           \/ Succeeded(o) /\ AlreadyVoted(r)

\* C2: for every poll, votes_a and votes_b are the numbers of Votes rows of
\* that poll with selection A and B, and every Votes row is of a stored poll.
C2_CountersMatchLedger ==
    /\ \A p \in DOMAIN polls :
          /\ polls[p].votes_a = Cardinality(RowsOf(p, "A"))
          /\ polls[p].votes_b = Cardinality(RowsOf(p, "B"))
    /\ \A v \in votes : v.poll_id \in DOMAIN polls

C2_Witness ==
    \E p \in DOMAIN polls : polls[p].votes_a = 1 /\ polls[p].votes_b = 1

\* C3: once all the submissions have completed, if they came from pairwise
\* distinct sessions, were for one stored poll and met no storage failure,
\* then each succeeded and the poll's counters are the numbers of them that
\* chose A and chose B.
AllSubmitted == \A r \in VoteReqs : Done(r)
DistinctSessionsOnePoll ==
    \A r \in VoteReqs, o \in VoteReqs :
        /\ vreq[r].pollId.v = vreq[o].pollId.v
        /\ r # o => vreq[r].sessionId # vreq[o].sessionId
Chose(selection) == {r \in VoteReqs : vreq[r].selection = selection}

C3_NoLostUpdate ==
    (/\ AllSubmitted /\ DistinctSessionsOnePoll
     /\ \A r \in VoteReqs : ~StorageFailed(r) /\ vreq[r].error # "violates foreign key constraint")
    => /\ \A r \in VoteReqs : Succeeded(r)
       /\ \A r \in VoteReqs :
             /\ polls[vreq[r].pollId.v].votes_a = Cardinality(Chose("A"))
             /\ polls[vreq[r].pollId.v].votes_b = Cardinality(Chose("B"))

\* Every submission chose A, for one poll, from distinct sessions, and the
\* last read-back came after the others' commits.
C3_Witness ==
    /\ AllSubmitted /\ DistinctSessionsOnePoll
    /\ \A r \in VoteReqs : Succeeded(r) /\ vreq[r].selection = "A"
    /\ \E r \in VoteReqs : vreq[r].votesA = NumVoteReqs

\* C4: the Votes table never holds two rows for one (poll, session), and of
\* the submissions for one pair at most one holds an uncommitted row or has
\* succeeded, also when both passed the pre-check.
InTransaction(r) == vreq[r].pc \in {"update", "select", "commit"}

C4_OneRowPerPair ==
    /\ \A v \in votes, w \in votes :
          (v.poll_id = w.poll_id /\ v.session_id = w.session_id) => v = w
    /\ \A r \in VoteReqs, o \in VoteReqs :
          (r # o /\ SamePair(r, o)) =>
              ~((InTransaction(r) \/ Succeeded(r)) /\ (InTransaction(o) \/ Succeeded(o)))

\* Two submissions for one pair both passed the pre-check; one committed, the
\* insert of the other met the unique index.
C4_Witness ==
    \E r \in VoteReqs, o \in VoteReqs :
        /\ r # o /\ SamePair(r, o) /\ Succeeded(r)
        /\ Done(o) /\ vreq[o].error = "duplicate key value violates unique constraint"
        /\ Cardinality(ExistingVote(votes, vreq[r].pollId.v, vreq[r].sessionId)) = 1
        /\ polls[vreq[r].pollId.v].votes_a + polls[vreq[r].pollId.v].votes_b = 1

\* C5: a step of a submission that does not end it in success leaves the
\* Votes and Polls tables as they were; a storage failure is answered 500;
\* and in the state after any step the counters match the ledger.
C5_AllOrNothing ==
    [][/\ \A r \in VoteReqs :
             (vreq'[r] # vreq[r] /\ vreq'[r].status # 200) =>
                 /\ votes' = votes /\ polls' = polls
                 /\ vreq'[r].error = "storage failure" => vreq'[r].status = 500
       /\ \A p \in DOMAIN polls' :
             polls'[p].votes_a + polls'[p].votes_b
                = Cardinality({v \in votes' : v.poll_id = p})]_vars

\* A submission failed after its insert, increment and read-back (its
\* read-back saw the vote), and no vote is stored.
C5_Witness ==
    \E r \in VoteReqs :
        /\ StorageFailed(r) /\ vreq[r].status = 500
        /\ vreq[r].votesA + vreq[r].votesB = 1
        /\ votes = {}
        /\ polls[vreq[r].pollId.v].votes_a + polls[vreq[r].pollId.v].votes_b = 0

\* C6: a body whose pollId is missing or no number, or whose selection is
\* not exactly "A" or "B", never reaches a storage step (no handler past
\* validation holds one); the answer to a rejected body is 400 with a
\* validation message, and the step that gives it changes no table, no
\* handler and meets no storage failure.
Malformed(pollId, selection) == pollId.t # "number" \/ selection \notin {"A", "B"}
ValidationMessages == {"Valid pollId is required", "Selection must be A or B"}

C6_RejectedBeforeStorage ==
    [][/\ \A r \in VoteReqs :
             vreq'[r].pc # "idle" => ~Malformed(vreq'[r].pollId, vreq'[r].selection)
       /\ \A b \in InvalidVoteBodies :
             VoteRejected(b.pollId, b.selection, b.header, b.sessionId) =>
                 /\ last'.status = 400 /\ last'.error \in ValidationMessages
                 /\ UNCHANGED <<polls, poll_id_seq, clock, votes, vreq, faults>>
       /\ last'.op = "vote" => last'.status = 400 /\ last'.error \in ValidationMessages]_vars

\* A malformed body was rejected while polls and votes were stored.
C6_Witness ==
    /\ last.op = "vote" /\ last.status = 400
    /\ votes # {}
    /\ \E p \in DOMAIN polls : polls[p].votes_a + polls[p].votes_b > 0

\* C7: a completed submission for a poll id that no stored poll has, with no
\* storage failure, was answered with a client error.
C7_UnknownPollIsClientError ==
    \A r \in VoteReqs :
        (Done(r) /\ ~StorageFailed(r) /\ vreq[r].pollId.v \notin DOMAIN polls)
        => vreq[r].status \in {400, 404}

\* C8: the data of a list response for session S holds active polls only, at
\* most 3, the newest active ones, newest first, and the userVoted of each is
\* the selection of S's Votes row for that poll, or null when S has none.
\* (A held response is dropped at the next write, so it is compared with
\* the tables it was read from.)
ListHeld == last.op = "list" /\ last.status = 200

C8_ListActiveNewestFirst ==
    ListHeld =>
        LET d == last.data
            shown == {d[i].id : i \in 1..Len(d)}
        IN  /\ Len(d) <= 3
            /\ \A i \in 1..Len(d) : d[i].id \in DOMAIN polls /\ polls[d[i].id].is_active
            /\ \A i \in 1..Len(d), j \in 1..Len(d) :
                  i < j => polls[d[i].id].created_at > polls[d[j].id].created_at
            /\ \A i \in 1..Len(d) :
                  IF \E v \in votes : v.poll_id = d[i].id /\ v.session_id = last.sid
                  THEN \E v \in votes : /\ v.poll_id = d[i].id /\ v.session_id = last.sid
                                        /\ v.selection = d[i].userVoted
                  ELSE d[i].userVoted = Null
            /\ \A p \in DOMAIN polls :
                  (polls[p].is_active /\ p \notin shown) =>
                      /\ Len(d) = 3
                      /\ \A q \in shown : polls[q].created_at > polls[p].created_at

\* Four polls are active, three are listed, and the session has voted on one
\* of the listed and not on another.
C8_Witness ==
    /\ ListHeld /\ Len(last.data) = 3
    /\ Cardinality({p \in DOMAIN polls : polls[p].is_active}) = 4
    /\ \E i \in 1..3 : last.data[i].userVoted = "B"
    /\ \E i \in 1..3 : last.data[i].userVoted = Null

\* C9: a step that puts a list response in place changes no table, no
\* sequence and no handler, and when the response of an earlier list for the
\* same session is still held (no write since), the new response has the
\* same data.
C9_ListReadOnlyIdempotent ==
    [][(last' # last /\ last'.op = "list" /\ last'.status = 200) =>
          /\ UNCHANGED <<polls, poll_id_seq, clock, votes, vreq, gen, faults>>
          /\ (ListHeld /\ last.sid = last'.sid) => last'.data = last.data]_vars

\* A list response with polls and the viewer's vote is held, so a second
\* list for the session can follow it with no write in between.
C9_Witness ==
    /\ ListHeld /\ last.sid = "s1"
    /\ \E i \in 1..Len(last.data) : last.data[i].userVoted # Null
    /\ \E p \in DOMAIN polls : ~polls[p].is_active

\* C10: a step that inserts into Polls adds exactly one row, under an id no
\* stored poll has, with votes_a = 0, votes_b = 0 and is_active = true, and
\* leaves the stored rows as they were.
C10_NewPollZeroedActiveFresh ==
    [][clock' # clock =>
          /\ \A p \in DOMAIN polls : p \in DOMAIN polls' /\ polls'[p] = polls[p]
          /\ Cardinality(DOMAIN polls' \ DOMAIN polls) = 1
          /\ \A p \in DOMAIN polls' \ DOMAIN polls :
                /\ polls'[p].votes_a = 0 /\ polls'[p].votes_b = 0
                /\ polls'[p].is_active = TRUE]_vars

\* A poll of the create operation and a poll of the generator are stored,
\* and an older poll has votes and is inactive.
C10_Witness ==
    /\ \E p \in DOMAIN polls : polls[p].player_a_id = "p1" /\ polls[p].votes_a + polls[p].votes_b > 0
    /\ \E p \in DOMAIN polls : polls[p].player_a_id = "QB1" /\ polls[p].is_active

\* A create request as the claim has it missing or invalid: a category outside
\* the three, an empty or over-long prompt, a missing side, or a side without
\* its player reference or its name.
InvalidCreateBody(b) ==
    \/ b.pollType \notin {"ADD_DROP", "START_SIT", "TRADE"}
    \/ b.question.t = "undefined" \/ b.question.len = 0 \/ b.question.len > 500
    \/ ~b.playerA.present \/ ~b.playerB.present
    \/ Undefined \in {b.playerA.id, b.playerA.name, b.playerB.id, b.playerB.name}

\* The handler answers create request b, its insert meeting no storage failure.
CreateAnswered(b) == CreateRejected(b) \/ CreatePoll(b) \/ CreateNotNull(b)

\* C11: a create request with a missing or invalid field is answered with a
\* client error (4xx) and stores nothing.
C11_InvalidCreateIsClientError ==
    [][\A b \in CreateBodies :
          (InvalidCreateBody(b) /\ CreateAnswered(b)) =>
              /\ last'.op = "create" /\ last'.status \in 400..499
              /\ UNCHANGED <<polls, poll_id_seq, votes>>]_vars

\* ------------------------------------------------------------ the generator
\* C12: the deactivation step of a run leaves no stored poll active, and no
\* step ever makes an inactive poll active or drops a poll: the polls active
\* when the run started stay inactive whatever the run does next.
C12_RunDeactivatesAll ==
    [][/\ \A g \in GenRuns :
             (gen[g].pc = "deactivate" /\ gen'[g].pc = "rank") =>
                 \A p \in DOMAIN polls : ~polls'[p].is_active
       /\ \A p \in DOMAIN polls :
             /\ p \in DOMAIN polls'
             /\ ~polls[p].is_active => ~polls'[p].is_active]_vars

C12_Witness ==
    \E g \in GenRuns :
        /\ gen[g].pc = "rank"
        /\ Cardinality(DOMAIN polls) >= 1
        /\ \A p \in DOMAIN polls : ~polls[p].is_active /\ polls[p].player_a_id = "p1"

\* C13: when the ranker returns fewer than 6 rows the run ends at once with a
\* success response and pollsCreated = 0, that step changes no poll, and a
\* run that has ended does nothing more.
C13_TooFewPlayersNoPoll ==
    [][\A g \in GenRuns :
          /\ (/\ gen[g].pc = "rank"
              /\ gen'[g].trending.returned
              /\ Len(gen'[g].trending.rows) < 6) =>
                 /\ gen'[g].pc = "done" /\ gen'[g].status = 200
                 /\ gen'[g].pollsCreated = 0 /\ gen'[g].toCreate = <<>>
                 /\ UNCHANGED <<polls, poll_id_seq>>
          /\ gen[g].pc = "done" => gen'[g] = gen[g]]_vars

C13_Witness ==
    \E g \in GenRuns :
        /\ gen[g].pc = "done" /\ gen[g].status = 200 /\ gen[g].pollsCreated = 0
        /\ gen[g].trending.returned
        /\ Len(gen[g].trending.rows) \in 1..5
        /\ polls # <<>>
        /\ ActiveIds(polls) = {}

\* The positions that hold at least two of the ranked players.
PositionsOf(rows) == {rows[i].position : i \in 1..Len(rows)}
GroupSize(rows, position) == Cardinality({i \in 1..Len(rows) : rows[i].position = position})
PairPositions(rows) == {p \in PositionsOf(rows) : GroupSize(rows, p) >= 2}

\* C14 as stated: a run that succeeded on a ranker result with at least two
\* positions of at least two players has created min(3, 3 categories) polls.
C14_TwoPairPositionsGiveBatch ==
    \A g \in GenRuns :
        (/\ gen[g].pc = "done" /\ gen[g].status = 200
         /\ gen[g].trending.returned
         /\ Cardinality(PairPositions(gen[g].trending.rows)) >= 2)
        => gen[g].pollsCreated = Min(3, Len(PollTypes))

\* C14 amended: on a ranker result of at least 6 rows with at least two
\* positions of at least two players, each insert of the run adds exactly one
\* poll, active, of two distinct players, both counters zero, and a run that
\* ends with success has created min(3, 3 categories) polls.
C14_EnoughPlayersGiveBatch ==
    [][\A g \in GenRuns :
          (/\ gen'[g].trending.returned
           /\ Len(gen'[g].trending.rows) >= 6
           /\ Cardinality(PairPositions(gen'[g].trending.rows)) >= 2) =>
              /\ gen'[g].pollsCreated # gen[g].pollsCreated =>
                    /\ gen'[g].pollsCreated = gen[g].pollsCreated + 1
                    /\ \E id \in DOMAIN polls' \ DOMAIN polls :
                          /\ DOMAIN polls' = DOMAIN polls \cup {id}
                          /\ polls'[id].is_active
                          /\ polls'[id].votes_a = 0 /\ polls'[id].votes_b = 0
                          /\ polls'[id].player_a_id # polls'[id].player_b_id
              /\ (gen'[g].pc = "done" /\ gen'[g].status = 200) =>
                    gen'[g].pollsCreated = Min(3, Len(PollTypes))]_vars

C14_Witness ==
    \E g \in GenRuns :
        /\ gen[g].pc = "done" /\ gen[g].status = 200 /\ gen[g].pollsCreated = 3
        /\ Cardinality(PairPositions(gen[g].trending.rows)) >= 2
        /\ Cardinality({p \in ActiveIds(polls) :
                           polls[p].player_a_id = "QB1" /\ polls[p].player_b_id = "QB2"}) = 3

\* The batch as the claim describes it: the first position, in the order the
\* ranker returns them, that holds two players; its first row as side A and
\* its second as side B, once for each category in order.
FirstRowOf(rows, position) ==
    CHOOSE i \in 1..Len(rows) :
        /\ rows[i].position = position
        /\ \A j \in 1..(i - 1) : rows[j].position # position
FirstPairPosition(rows) ==
    CHOOSE p \in PairPositions(rows) :
        \A q \in PairPositions(rows) : FirstRowOf(rows, p) <= FirstRowOf(rows, q)
ClaimedBatch(rows) ==
    IF PairPositions(rows) = {} THEN <<>>
    ELSE LET first == FirstRowOf(rows, FirstPairPosition(rows))
         IN  <<[pollType |-> "ADD_DROP", playerA |-> rows[first], playerB |-> rows[first + 1]],
               [pollType |-> "START_SIT", playerA |-> rows[first], playerB |-> rows[first + 1]],
               [pollType |-> "TRADE", playerA |-> rows[first], playerB |-> rows[first + 1]]>>

\* C18: what a run has still to insert is the rest of the claimed batch, and
\* a run that ended with success on 6 rows or more has inserted all of it.
C18_BatchIsFirstPairPerCategory ==
    \A g \in GenRuns :
        LET batch == ClaimedBatch(gen[g].trending.rows)
        IN  /\ gen[g].pc = "insert" =>
                  /\ gen[g].pollsCreated < Len(batch)
                  /\ gen[g].toCreate = SubSeq(batch, gen[g].pollsCreated + 1, Len(batch))
            /\ (/\ gen[g].pc = "done" /\ gen[g].status = 200
                /\ Len(gen[g].trending.rows) >= 6) =>
                  /\ gen[g].pollsCreated = Len(batch)
                  /\ gen[g].toCreate = <<>>

C18_Witness ==
    \E g \in GenRuns :
        /\ gen[g].pc = "insert" /\ gen[g].pollsCreated = 0
        /\ Len(gen[g].toCreate) = 3
        /\ gen[g].toCreate[1].playerA.playerid = "QB1"
        /\ gen[g].toCreate[1].playerB.playerid = "QB2"
        /\ gen[g].trending.rows[1].position = "DEF"

\* C19: when an insert of the batch fails the run ends with the storage
\* error, the step changes no poll (the rows inserted so far stay as they
\* are) and the run inserts nothing afterwards.
C19_FailedInsertKeepsEarlierPolls ==
    [][\A g \in GenRuns :
          /\ (gen[g].pc = "insert" /\ gen'[g].pc = "done" /\ gen'[g].status # 200) =>
                /\ gen'[g].status = 500 /\ gen'[g].error = "storage failure"
                /\ gen'[g].pollsCreated = gen[g].pollsCreated
                /\ polls' = polls
          /\ (gen[g].pc = "done" /\ gen[g].status = 500) =>
                (gen'[g] = gen[g] /\ Cardinality(DOMAIN polls') >= gen[g].pollsCreated)]_vars

C19_Witness ==
    \E g \in GenRuns :
        /\ gen[g].pc = "done" /\ gen[g].status = 500
        /\ gen[g].pollsCreated = 2 /\ Len(gen[g].toCreate) = 1
        /\ Cardinality({p \in ActiveIds(polls) : polls[p].player_a_id = "QB1"}) = 2

\* A run between its deactivation and its first insert.
InWindow(g) ==
    \/ gen[g].pc = "rank"
    \/ gen[g].pc = "insert" /\ gen[g].pollsCreated = 0

\* C20: the deactivation is visible to readers as soon as its step is taken:
\* a list query on the tables it leaves returns no poll, and a list response
\* held while a run is in its window shows none of the deactivated polls.
C20_ListSeesDeactivation ==
    [][\A g \in GenRuns :
          /\ (gen[g].pc = "deactivate" /\ gen'[g].pc = "rank") =>
                \A h \in SystemListSessions : ListQuery(polls', votes', h) = <<>>
          /\ (InWindow(g)' /\ ListHeld') =>
                \A i \in 1..Len(last'.data) : polls'[last'.data[i].id].is_active]_vars

\* A list answered with no poll inside the window of a run that had polls
\* to deactivate and has polls to insert.
C20_Witness ==
    \E g \in GenRuns :
        /\ gen[g].pc = "insert" /\ gen[g].pollsCreated = 0 /\ gen[g].toCreate # <<>>
        /\ ListHeld /\ last.data = <<>>
        /\ polls # <<>>

\* --------------------------------------------------------- voter identifier
\* C17: a submission takes the header's identifier when the header has one,
\* else the body's when the body has one, else a generated one that no
\* request supplied; and a submission answered with success has its Votes
\* row stored under the identifier the response returns.
C17_HeaderThenBodyThenGenerated ==
    [][\A r \in VoteReqs :
          /\ \A b \in VotesBodies :
                VotePrecheck(r, b.pollId, b.selection, b.header, b.sessionId) =>
                    /\ b.header # Undefined => vreq'[r].sessionId = b.header
                    /\ (b.header = Undefined /\ b.sessionId # Undefined) =>
                          vreq'[r].sessionId = b.sessionId
                    /\ (b.header = Undefined /\ b.sessionId = Undefined) =>
                          /\ vreq'[r].sessionId = generateSessionId(r)
                          /\ \A c \in VotesBodies :
                                vreq'[r].sessionId \notin {c.header, c.sessionId}
          /\ Succeeded(r)' =>
                \E v \in votes' :
                    /\ v.vote_id = r
                    /\ v.session_id = vreq'[r].sessionId
                    /\ v.poll_id = vreq'[r].pollId.v
                    /\ v.selection = vreq'[r].selection]_vars

C17_Witness ==
    \E r \in VoteReqs, o \in VoteReqs :
        /\ Succeeded(r) /\ vreq[r].pollId.v = 2 /\ vreq[r].selection = "A"
        /\ vreq[r].sessionId = "s1"
        /\ Succeeded(o) /\ vreq[o].sessionId = generateSessionId(o)

\* ------------------------------------------------------------ the scheduler
\* C15: the startup check, when it succeeds, finds no poll exactly when no
\* poll is active; having found none the scheduler goes on to call the
\* generator, once by the time it is done; having found one it is done
\* without a call.
C15_StartupCheckDecides ==
    [][LET st == sched'.startup
       IN  /\ (sched.startup.pc = "delay" /\ st.check = "ok") =>
                 (st.found = 0 <=> \A p \in DOMAIN polls : ~polls[p].is_active)
           /\ (st.check = "ok" /\ st.found = 0) =>
                 /\ st.pc \in {"call", "await", "done"}
                 /\ st.pc \in {"await", "done"} <=> st.calls = 1
           /\ (st.check = "ok" /\ st.found > 0) =>
                 st.pc = "done" /\ st.calls = 0]_vars

C15_Witness ==
    /\ sched.startup.check = "ok" /\ sched.startup.found = 0
    /\ sched.startup.pc = "done" /\ sched.startup.calls = 1
    /\ \A d \in DailyTriggers : sched.daily[d].pc = "idle"
    /\ \E g \in GenRuns : gen[g].pc = "done" /\ gen[g].pollsCreated = 3

\* C16: a startup check that failed is followed by a call of the generator;
\* no error leaves a scheduler callback; the startup check and each daily
\* trigger call the generator at most once.
C16_FailuresSwallowedNoRetry ==
    /\ ~sched.crashed
    /\ sched.startup.calls <= 1
    /\ \A d \in DailyTriggers : sched.daily[d].calls <= 1
    /\ sched.startup.check = "failed" =>
          /\ sched.startup.pc \in {"call", "await", "done"}
          /\ sched.startup.pc \in {"await", "done"} <=> sched.startup.calls = 1

C16_Witness ==
    /\ sched.startup.check = "failed"
    /\ sched.startup.pc = "done" /\ sched.startup.calls = 1
    /\ \A d \in DailyTriggers : sched.daily[d].pc = "idle"
    /\ \E g \in GenRuns : gen[g].pc = "done" /\ gen[g].status = 500

\* C21: for every poll, votes_a and votes_b are non-negative and never
\* decrease, whatever request or run takes a step, the failed and the
\* rolled-back ones included; no step drops a poll with its counters.
C21_CountersNeverDecrease ==
    [][/\ \A p \in DOMAIN polls' : polls'[p].votes_a >= 0 /\ polls'[p].votes_b >= 0
       /\ \A p \in DOMAIN polls :
            /\ p \in DOMAIN polls'
            /\ polls'[p].votes_a >= polls[p].votes_a
            /\ polls'[p].votes_b >= polls[p].votes_b]_vars

\* A vote counted on a poll that a generator run has since deactivated,
\* beside a submission that was rolled back.
C21_Witness ==
    /\ 1 \in DOMAIN polls
    /\ polls[1].votes_a + polls[1].votes_b >= 1
    /\ ~polls[1].is_active
    /\ \E r \in VoteReqs : StorageFailed(r)
    /\ \E g \in GenRuns : gen[g].pc = "done"

\* C22: no step changes a column of a stored poll other than its active flag
\* and its two counters, and no step updates or removes a Votes row: every
\* poll stays stored with its category, sides, week, year and creation time,
\* and the ledger only grows.
C22_PollImmutableLedgerGrows ==
    [][/\ \A p \in DOMAIN polls :
            /\ p \in DOMAIN polls'
            /\ polls'[p] = [polls[p] EXCEPT !.is_active = polls'[p].is_active,
                                            !.votes_a = polls'[p].votes_a,
                                            !.votes_b = polls'[p].votes_b]
       /\ votes \subseteq votes']_vars

\* A poll that has counted a vote and been deactivated, its Votes row still
\* in the ledger, beside a poll stored after it.
C22_Witness ==
    \E v \in votes :
        /\ v.poll_id \in DOMAIN polls
        /\ ~polls[v.poll_id].is_active
        /\ polls[v.poll_id][IF v.selection = "A" THEN "votes_a" ELSE "votes_b"] >= 1
        /\ \E q \in DOMAIN polls : polls[q].created_at > polls[v.poll_id].created_at

InRange(x, lo, hi) == x.t \in {"number", "string"} /\ lo <= x.v /\ x.v <= hi
\* A value the generator takes up as an override: req.body.week ? ... : ...
Supplied(x) == x.t \in {"text", "string"} \/ (x.t = "number" /\ x.v # 0)

\* C23: the week and year of a create request and the overrides of a
\* generator run are clamped before use. The stored week is within 1..18
\* whatever was sent; the stored year is within 2000..2030 for every create
\* request and for every override a run takes up; a value inside the range
\* is stored as it is; each insert of a run stores the run's week and year;
\* and clamping a stored value again gives the same value.
C23_WeekYearClamped ==
    [][/\ \A b \in ClampCreateBodies :
            CreatePoll(b) =>
                LET row == polls'[poll_id_seq']
                IN  /\ row.week \in 1..18
                    /\ row.year \in 2000..2030
                    /\ InRange(b.week, 1, 18) => row.week = b.week.v
                    /\ InRange(b.year, 2000, 2030) => row.year = b.year.v
                    /\ validateWeek(JsNumber(row.week)) = row.week
                    /\ validateYear(JsNumber(row.year)) = row.year
       /\ \A g \in GenRuns, o \in ClampOverrides :
            GenReceive(g, o[1], o[2]) =>
                /\ gen'[g].week \in 1..18
                /\ Supplied(o[2]) => gen'[g].year \in 2000..2030
                /\ InRange(o[1], 1, 18) => gen'[g].week = o[1].v
                /\ InRange(o[2], 2000, 2030) => gen'[g].year = o[2].v
                /\ validateWeek(JsNumber(gen'[g].week)) = gen'[g].week
                /\ Supplied(o[2]) => validateYear(JsNumber(gen'[g].year)) = gen'[g].year
       /\ \A g \in GenRuns :
            GenInsert(g) =>
                /\ polls'[poll_id_seq'].week = gen[g].week
                /\ polls'[poll_id_seq'].year = gen[g].year]_vars

\* Polls stored with the week at both ends of its range and the year at both
\* ends of its range: no request tried carries 1, 18, 2000 or 2030.
C23_Witness ==
    /\ \E p \in DOMAIN polls : polls[p].week = 18
    /\ \E p \in DOMAIN polls : polls[p].week = 1
    /\ \E p \in DOMAIN polls : polls[p].year = 2000
    /\ \E p \in DOMAIN polls : polls[p].year = 2030

Answered(r, status) == vreq'[r].status = status /\ vreq[r].status # status
CounterOf(selection) == IF selection = "B" THEN "votes_b" ELSE "votes_a"

\* C24: the step that answers a submission with success adds exactly one
\* Votes row, of the submission's poll, session and side, and raises that
\* side's counter of that poll by one; the other counter, the active flag and
\* every other poll and Votes row stay as they are. Every other step of a
\* submission, the answer to a duplicate included, and the rejection of a
\* malformed body change no poll and no Votes row.
C24_VoteChangesOneRowOneCounter ==
    [][/\ \A r \in VoteReqs :
            Answered(r, 200) =>
                LET p == vreq'[r].pollId.v
                    col == CounterOf(vreq'[r].selection)
                IN  /\ \E row \in votes' \ votes :
                          /\ votes' = votes \cup {row}
                          /\ row.poll_id = p
                          /\ row.session_id = vreq'[r].sessionId
                          /\ row.selection = vreq'[r].selection
                    /\ polls' = [polls EXCEPT ![p][col] = polls[p][col] + 1]
                    /\ poll_id_seq' = poll_id_seq
       /\ \A r \in VoteReqs :
            (vreq'[r] # vreq[r] /\ ~Answered(r, 200)) =>
                UNCHANGED <<polls, votes, poll_id_seq>>
       /\ \A b \in InvalidVoteBodies :
            VoteRejected(b.pollId, b.selection, b.header, b.sessionId) =>
                UNCHANGED <<polls, votes, poll_id_seq, vreq>>]_vars

\* One submission counted and a second of the same session answered as a
\* duplicate, beside a second poll, and a malformed body just rejected.
C24_Witness ==
    /\ \E r, o \in VoteReqs : Succeeded(r) /\ AlreadyVoted(o)
    /\ Cardinality(votes) = 1
    /\ Cardinality(DOMAIN polls) >= 2
    /\ last.op = "vote" /\ last.status = 400

InactiveIds == {p \in DOMAIN polls : ~polls[p].is_active}

\* C25: a poll whose active flag is false keeps it false at every step, of
\* any request or run: the set of inactive polls only grows.
C25_InactiveStaysInactive ==
    [][InactiveIds \subseteq InactiveIds']_vars

\* The first poll retired by a run that then stored its batch, and a vote
\* counted on a retired poll.
C25_Witness ==
    /\ 1 \in InactiveIds
    /\ \E g \in GenRuns : gen[g].pc = "done" /\ gen[g].pollsCreated = BatchSize
    /\ \E v \in votes : v.poll_id \in InactiveIds
    /\ \E r \in VoteReqs : Succeeded(r)

FirstOfSession(r) ==
    \A v \in votes : ~(v.poll_id = vreq'[r].pollId.v /\ v.session_id = vreq'[r].sessionId)

\* C26: the submission handler does not read the active flag. Every step of
\* a submission on a stored poll, active or not, from a session with no
\* Votes row on it and met by no storage failure, goes on without an error
\* answer; the step that answers 200 adds the session's row and raises the
\* chosen counter by one, and leaves the flag as it was.
C26_InactivePollTakesVotes ==
    [][\A r \in VoteReqs :
          (/\ vreq'[r] # vreq[r]
           /\ vreq'[r].pollId.v \in DOMAIN polls
           /\ FirstOfSession(r)
           /\ vreq'[r].error # "storage failure") =>
              /\ vreq'[r].status \in {0, 200}
              /\ vreq'[r].status = 200 =>
                    LET p == vreq'[r].pollId.v
                        col == CounterOf(vreq'[r].selection)
                    IN  /\ polls'[p][col] = polls[p][col] + 1
                        /\ polls'[p].is_active = polls[p].is_active
                        /\ \E v \in votes' \ votes :
                              v.poll_id = p /\ v.session_id = vreq'[r].sessionId]_vars

\* A vote counted on the inactive poll and a vote counted on the active one.
C26_Witness ==
    \E r, o \in VoteReqs :
        /\ Succeeded(r) /\ ~polls[vreq[r].pollId.v].is_active
        /\ polls[vreq[r].pollId.v].votes_a + polls[vreq[r].pollId.v].votes_b = 1
        /\ Succeeded(o) /\ polls[vreq[o].pollId.v].is_active
        /\ polls[vreq[o].pollId.v].votes_a + polls[vreq[o].pollId.v].votes_b = 1

Generated(r) == vreq[r].sessionId = "sess_" \o ToString(r)
SubmittedOn(p) == {r \in VoteReqs : Succeeded(r) /\ vreq[r].pollId.v = p}

\* C27: a submission without a session identifier votes under an identifier
\* generated for it alone, so it is never answered as a duplicate: on a
\* stored poll, unless a storage statement fails, each step of it goes on and
\* it is answered 200, and the counters of a poll add up to the number of
\* submissions answered 200 on it. A listing without an identifier is made
\* for the session 'anonymous', which no generated identifier equals: no
\* Votes row is stored under it, and the listing reports no vote of the
\* viewer on any poll.
C27_NoIdentifierNeverDuplicate ==
    [][/\ \A r \in VoteReqs :
            (/\ vreq'[r] # vreq[r]
             /\ Generated(r)'
             /\ vreq'[r].pollId.v \in DOMAIN polls
             /\ vreq'[r].error # "storage failure") => vreq'[r].status \in {0, 200}
       /\ (polls' # polls \/ vreq' # vreq) =>
            \A p \in DOMAIN polls' :
                polls'[p].votes_a + polls'[p].votes_b = Cardinality(SubmittedOn(p)')
       /\ (last'.op = "list" /\ ListPolls(Undefined, Undefined)) =>
                /\ last'.sid = "anonymous"
                /\ \A v \in votes : v.session_id # "anonymous"
                /\ \A i \in 1..Len(last'.data) : last'.data[i].userVoted = Null]_vars

\* Two submissions without an identifier counted on one poll, and a listing
\* without an identifier that shows the poll with both votes and none as the
\* viewer's own.
C27_Witness ==
    /\ \A r \in VoteReqs : Succeeded(r) /\ Generated(r) /\ vreq[r].pollId.v = 1
    /\ last.op = "list" /\ last.sid = "anonymous"
    /\ \E i \in 1..Len(last.data) :
          /\ last.data[i].id = 1
          /\ last.data[i].votesA + last.data[i].votesB = NumVoteReqs
          /\ last.data[i].userVoted = Null

NoRunInProgress == \A g \in DOMAIN gen : gen[g].pc \in {"idle", "done"}
StoredByCreate(p) == polls[p].player_a_id = "p1"
ActiveNow == {p \in DOMAIN polls : polls[p].is_active}

\* C28: whenever no generator run is in progress and no active poll was
\* stored by a create request, at most one batch of 3 polls is active, all
\* of one run (no more than that run has created), overlapping runs included.
C28_OneBatchActive ==
    (NoRunInProgress /\ \A p \in ActiveNow : ~StoredByCreate(p)) =>
        /\ Cardinality(ActiveNow) <= BatchSize
        /\ ActiveNow # {} =>
              \E g \in DOMAIN gen : gen[g].pc = "done" /\ Cardinality(ActiveNow) <= gen[g].pollsCreated

\* The sessions a listing may be made for: those with a Votes row, and
\* 'anonymous' for those with none.
Viewers == {"anonymous"} \cup {v.session_id : v \in votes}
UserVotedOf(rows) == [i \in 1..Len(rows) |-> <<rows[i].id, rows[i].userVoted>>]

\* C29: no step of a vote submission of one session changes what the
\* listing reports to another session as its own votes: whenever such a step
\* writes to a table, for every viewer other than the submission's session
\* the polls listed and the userVoted value of each are the same before and
\* after the step; only the counters may differ.
C29_OtherSessionsVoteUnseen ==
    [][\A r \in VoteReqs :
          (vreq'[r] # vreq[r] /\ <<polls', votes'>> # <<polls, votes>>) =>
              \A sid \in Viewers \ {vreq'[r].sessionId} :
                  UserVotedOf(ListQuery(polls', votes', sid))
                      = UserVotedOf(ListQuery(polls, votes, sid))]_vars

\* A listing held by session s1 that shows its own vote on a poll on which
\* another session's vote has been counted too.
C29_Witness ==
    /\ ListHeld /\ last.sid = "s1"
    /\ \E i \in 1..Len(last.data) :
          /\ last.data[i].userVoted # Null
          /\ last.data[i].votesA + last.data[i].votesB >= 2
          /\ \E v \in votes : v.poll_id = last.data[i].id /\ v.session_id # "s1"

NoPairRanked(rows) == Len(rows) >= MinTrending /\ PairPositions(rows) = {}

AnsweredNoPair(g) ==
    /\ gen[g].pc = "rank" /\ gen'[g].pc # "rank"
    /\ gen'[g].trending.returned
    /\ NoPairRanked(gen'[g].trending.rows)

\* C30 as stated: the step in which the ranker returns at least 6 players
\* with no two at one position answers success with pollsCreated = 0, and
\* no poll is active at that answer.
C30_ActiveSetLeftEmpty ==
    [][\A g \in GenRuns :
          AnsweredNoPair(g) =>
              /\ gen'[g].pc = "done" /\ gen'[g].status = 200
              /\ gen'[g].pollsCreated = 0
              /\ ActiveNow' = {}]_vars

\* C30, amended: the step in which the ranker returns at least 6 players
\* with no two at one position ends the run: it answers success with
\* pollsCreated = 0 and changes no poll. The run's deactivation leaves no
\* poll active, and from it to the answer a poll is active only if it was
\* stored in the meantime (by a create request or another run): every poll
\* active before the run is inactive at the answer, and the active set is
\* empty at the answer when nothing was stored since the deactivation.
C30_NoPairEndsRunEmpty ==
    [][\A g \in GenRuns :
          /\ (gen[g].pc = "deactivate" /\ gen'[g].pc = "rank") => ActiveNow' = {}
          /\ gen[g].pc = "rank" =>
                ActiveNow' \subseteq ActiveNow \cup (DOMAIN polls' \ DOMAIN polls)
          /\ AnsweredNoPair(g) =>
                /\ gen'[g].pc = "done" /\ gen'[g].status = 200
                /\ gen'[g].pollsCreated = 0
                /\ polls' = polls /\ poll_id_seq' = poll_id_seq]_vars

\* A run that met six players at six positions has answered: nothing
\* created, and the polls stored before it all inactive.
C30_Witness ==
    \E g \in GenRuns :
        /\ gen[g].pc = "done" /\ gen[g].status = 200 /\ gen[g].pollsCreated = 0
        /\ gen[g].trending.returned /\ Len(gen[g].trending.rows) = MinTrending
        /\ PairPositions(gen[g].trending.rows) = {}
        /\ polls # <<>>
        /\ \A p \in DOMAIN polls : ~polls[p].is_active

====
